---- MODULE Spec2Model ----
(***************************************************************************)
(* The two sketches of the Adafruit CC3000 library. The TCP echo server:    *)
(* the linked list of connected clients (addNewClient, removeClient),      *)
(* setup, echoSetup and echoLoop, run against a CC3000 transport whose     *)
(* sockets, buffers and clients act on their own between the program's     *)
(* calls. The SmartConfig test: its setup, step by step, and its loop.     *)
(***************************************************************************)
EXTENDS Integers, Sequences, FiniteSets, TLC

\* ---------------------------------------------------------------- bounds
\* Heap cells malloc can hand out.
NumAddr == 4
\* Client socket handles the transport can hand out (the listening socket is 0).
MaxHandles == 4
\* Spec: connection attempts the clients make in one run, and the bytes they
\* send, all connections together.
MaxArrivals == 4
MaxBytes == 1
\* EchoSpec: the same, with fewer connections and more bytes.
EchoArrivals == 2
EchoBytes == 2
\* FairEchoSpec: the same, for one connection's bytes to the end.
LiveArrivals == 1
LiveBytes == 2
\* FairRecoverSpec: the same, for a connection next to one that was lost.
RecoverArrivals == 2
RecoverBytes == 1
\* StreamSpec: connection attempts, next to clients that send without end.
StreamArrivals == 2
\* Polls of a wait loop of setup that report failure before one succeeds.
MaxPolls == 2

\* ------------------------------------------------------ program constants
MAX_CLIENTS == 3
LISTEN_PORT == 7
\* htonl(0): any network interface.
INADDR_ANY == 0
\* unsigned long aucInactivity = 0: never time out.
aucInactivity == 0
\* listen(listenSocket, 0): the backlog.
Backlog == 0
\* SmartConfig sketch: checkFirmwareVersion() != 0x113
FirmwareVersion == 275
\* SmartConfig sketch: cc3000.ping(ip, 5)
PingAttempts == 5

NULL == 0
Addr == 1..NumAddr
Ptr == 0..NumAddr
Handles == 1..MaxHandles
\* Values a client puts on the wire.
ByteVals == {65, 200}
\* accept: a negative result when nothing is pending (or on an error).
NoConn == {-2, -1}
\* SmartConfig sketch: the major and minor numbers a module's firmware reports,
\* the address a lookup resolves to, and what a local that was never assigned
\* may hold.
Majors == {1, 2}
Minors == {19, 36}
Resolved == {10}
Garbage == {0, 77, FirmwareVersion}

VARIABLES
  pc,           \* where the sketch is: a step of setup/echoSetup, or of echoLoop
  listenSocket, \* int listenSocket
  clients,      \* ClientList* clients
  clientCount,  \* int clientCount
  mem,          \* heap cells: [next, socket] of every address
  allocd,       \* addresses malloc has handed out and free has not taken back
  i,            \* echoLoop's ClientList* i
  next,         \* echoLoop's ClientList* next
  uaf,          \* a freed cell has been read
  lstate,       \* the listening socket at the transport: what has been done to it
  timeoutSet,   \* netapp_timeout_values has set the inactivity timeout to 0
  calls,        \* the module calls setup has made and what each returned
  polls,        \* the polls of the running wait loop that have reported failure
  sc,           \* the SmartConfig sketch: its build and its locals
  hstate,       \* every client handle: free, open, closed (by the client), leaked
  inbuf,        \* every handle's received, unread bytes
  sent,         \* every handle's bytes as its client sent them
  echoed,       \* every handle's bytes written back to its client
  wfrom,        \* for every byte written back: the handle it was read from
  wfail,        \* a write on the handle has returned 0
  pending,      \* connection attempts waiting at the listening socket
  arrivals,     \* connection attempts made so far
  nbytes,       \* bytes sent so far
  order,        \* the nodes in use, the most recently inserted first
  tick,         \* the running tick: what it started with and has done
  last          \* the outcome of the last list operation or accept phase

prog == <<pc, listenSocket, clients, clientCount, mem, allocd, order, i, next, uaf>>
reg == <<clients, clientCount, mem, allocd, order>>
net == <<lstate, timeoutSet, hstate, inbuf, sent, echoed, wfrom, wfail, pending>>
env == <<arrivals, nbytes>>
boot == <<calls, polls, sc>>
vars == <<pc, listenSocket, clients, clientCount, mem, allocd, i, next, uaf,
          lstate, timeoutSet, calls, polls, sc, hstate, inbuf, sent, echoed,
          wfrom, wfail, pending, arrivals, nbytes, order, tick, last>>

\* ------------------------------------------------------------- the list
\* A cell's content before malloc and after free: never read by correct code.
Junk == [next |-> NULL, socket |-> 0]

\* The nodes reachable from p through next, at most n of them.
RECURSIVE ChainFrom(_, _, _)
ChainFrom(m, p, n) ==
  IF p = NULL \/ n = 0 THEN <<>>
  ELSE <<p>> \o ChainFrom(m, m[p].next, n - 1)

\* The list as the sequence of its nodes, head first.
Chain == ChainFrom(mem, clients, NumAddr + 1)
ChainSet == {Chain[k] : k \in 1..Len(Chain)}
Tracked(s) == \E k \in 1..Len(Chain) : mem[Chain[k]].socket = s

\* s without its element at position k.
DropAt(s, k) == SubSeq(s, 1, k - 1) \o SubSeq(s, k + 1, Len(s))
IsPrefix(a, b) == Len(a) <= Len(b) /\ a = SubSeq(b, 1, Len(a))
IsSuffix(a, b) == Len(a) <= Len(b) /\ a = SubSeq(b, Len(b) - Len(a) + 1, Len(b))
\* The position of x in s, 0 when it is not there.
IndexOf(s, x) ==
  IF \E k \in 1..Len(s) : s[k] = x
  THEN CHOOSE k \in 1..Len(s) : s[k] = x /\ \A j \in 1..(k - 1) : s[j] /= x
  ELSE 0

\* What the last list operation or accept phase was: its outcome, its argument
\* and, for a removal, where the argument was in the list; for an insertion,
\* what malloc returned.
Did(op, arg, pos) == [op |-> op, arg |-> arg, pos |-> pos]

\* ----------------------------------------------------- addNewClient
\* malloc(sizeof(ClientList)): a cell not in use, or NULL. The sketch only
\* compares addresses for equality, so which free cell it gets does not matter:
\* the first one.
MallocResults ==
  {NULL} \cup {a \in Addr \ allocd : \A b \in Addr \ allocd : a <= b}

\* A new node that is not linked to the list it is put in front of.
NewNodeUnlinked(socket) == [next |-> NULL, socket |-> socket]

\* The fields addNewClient gives the new node.
NewNode(socket) == [next |-> clients, socket |-> socket]

\* clientCount++
CountAfterAdd(c) == c + 1

\* A test of malloc's result that never sees it fail.
AllocNeverFails(client) == FALSE

\* if (client == NULL)
AllocFailed(client) == client = NULL

addNewClient(socket) ==
  \E client \in MallocResults :
    IF AllocFailed(client)
    THEN /\ UNCHANGED reg
         /\ last' = Did("addFail", socket, client)
    ELSE /\ mem' = [mem EXCEPT ![client] = NewNode(socket)]
         /\ allocd' = allocd \cup {client}
         /\ clients' = client
         /\ clientCount' = CountAfterAdd(clientCount)
         /\ order' = <<client>> \o order
         /\ last' = Did("added", socket, client)

\* ----------------------------------------------------- removeClient
\* A search that stops at the last node instead of running off the list.
RECURSIVE FindPrevOrLast(_, _, _)
FindPrevOrLast(m, p, client) ==
  IF p /= NULL /\ m[p].next /= NULL /\ m[p].next /= client
  THEN FindPrevOrLast(m, m[p].next, client)
  ELSE p

\* The while loop of removeClient: the node whose next is client, or NULL.
RECURSIVE FindPrev(_, _, _)
FindPrev(m, p, client) ==
  IF p /= NULL /\ m[p].next /= client
  THEN FindPrev(m, m[p].next, client)
  ELSE p

\* An unlink that cuts the list off after the predecessor.
UnlinkRest(m, p, client) == [m EXCEPT ![p].next = NULL]

\* i->next = client->next
Unlink(m, p, client) == [m EXCEPT ![p].next = m[client].next]

\* A removal that leaves the count alone.
CountKept(c) == c

\* clientCount--
CountAfterRemove(c) == c - 1

\* free(client)
Free(m, client) == [m EXCEPT ![client] = Junk]

removeClient(client) ==
  IF client = NULL
  THEN /\ UNCHANGED reg
       /\ last' = Did("rmNull", client, 0)
  ELSE IF clients = client
  THEN /\ clients' = mem[client].next
       /\ mem' = Free(mem, client)
       /\ allocd' = allocd \ {client}
       /\ order' = SelectSeq(order, LAMBDA a : a /= client)
       /\ clientCount' = CountAfterRemove(clientCount)
       /\ last' = Did("rmHead", client, IndexOf(Chain, client))
  ELSE LET p == FindPrev(mem, clients, client) IN
       IF p = NULL
       THEN /\ UNCHANGED reg
            /\ last' = Did("rmAbsent", client, IndexOf(Chain, client))
       ELSE /\ mem' = Free(Unlink(mem, p, client), client)
            /\ allocd' = allocd \ {client}
            /\ order' = SelectSeq(order, LAMBDA a : a /= client)
            /\ clients' = clients
            /\ clientCount' = CountAfterRemove(clientCount)
            /\ last' = Did("rmInner", client, IndexOf(Chain, client))

\* ------------------------------------------------------- setup
NoTick ==
  [nodes |-> {}, dead |-> {}, live |-> {}, count0 |-> 0, naccept |-> 0, res |-> 0,
   mark |-> 0]
NoData == [h \in Handles |-> <<>>]
\* The listening socket before socket() has made it.
NoSocket ==
  [created |-> FALSE, nonblock |-> FALSE, bound |-> FALSE, port |-> 0,
   addr |-> 0, listening |-> FALSE, backlog |-> 0]
\* The SmartConfig sketch's build (with or without CC3000_TINY_DRIVER) and the
\* locals of its setup: version, ip.
NoLocals == [tiny |-> FALSE, version |-> 0, ip |-> 0]

\* Globals are zero-initialised; nothing has run.
InitAt(start, tiny) ==
  /\ pc = start
  /\ listenSocket = 0
  /\ clients = NULL
  /\ clientCount = 0
  /\ mem = [a \in Addr |-> Junk]
  /\ allocd = {}
  /\ i = NULL
  /\ next = NULL
  /\ uaf = FALSE
  /\ lstate = NoSocket
  /\ timeoutSet = FALSE
  /\ calls = <<>>
  /\ polls = 0
  /\ sc = [NoLocals EXCEPT !.tiny = tiny]
  /\ hstate = [h \in Handles |-> "free"]
  /\ inbuf = NoData
  /\ sent = NoData
  /\ echoed = NoData
  /\ wfrom = NoData
  /\ wfail = [h \in Handles |-> FALSE]
  /\ pending = 0
  /\ arrivals = 0
  /\ nbytes = 0
  /\ order = <<>>
  /\ tick = NoTick
  /\ last = Did("none", 0, 0)

\* setup() runs first.
Init == InitAt("begin", FALSE)

\* A call of the module made by setup, with what it returned (a bool as 0 or 1).
Call(fn, ret) == [fn |-> fn, ret |-> ret]
Called(fn, ret) == calls' = Append(calls, Call(fn, ret))

\* A setup that goes on to loop() when a step fails.
Returns == pc' = "loop"

\* while(1);
Halt == pc' = "halt"

\* if (!cc3000.begin()) ... while(1);
Begin ==
  /\ pc = "begin"
  /\ \E ret \in {0, 1} :
       /\ Called("begin", ret)
       /\ IF ret = 0 THEN Halt ELSE pc' = "connectToAP"
  /\ UNCHANGED <<listenSocket, reg, i, next, uaf, net, env, polls, sc, tick, last>>

\* if (!cc3000.connectToAP(...)) ... while(1);
ConnectToAP ==
  /\ pc = "connectToAP"
  /\ \E ret \in {0, 1} :
       /\ Called("connectToAP", ret)
       /\ IF ret = 0 THEN Halt ELSE pc' = "checkDHCP"
  /\ UNCHANGED <<listenSocket, reg, i, next, uaf, net, env, polls, sc, tick, last>>

\* A wait loop that gives up after its first failed poll.
PollOnce(n) == n < 1

\* while (!...) { delay(...); }: the loop polls again after any number of
\* failed polls.
PollAgain(n) == TRUE

\* One poll of a wait loop of setup: while (!fn()) { delay(...); }
Poll(at, fn, then) ==
  /\ pc = at
  /\ \E ret \in {0, 1} :
       IF ret /= 0
       THEN /\ Called(fn, ret)
            /\ polls' = 0
            /\ pc' = then
       ELSE /\ polls < MaxPolls
            /\ polls' = polls + 1
            /\ UNCHANGED calls
            /\ IF PollAgain(polls) THEN pc' = at ELSE Halt
  /\ UNCHANGED <<listenSocket, reg, i, next, uaf, net, env, sc, tick, last>>

\* while (!cc3000.checkDHCP()) delay(100);
CheckDHCP == Poll("checkDHCP", "checkDHCP", "displayConnectionDetails")

\* while (!displayConnectionDetails()) delay(1000);
DisplayConnectionDetails ==
  Poll("displayConnectionDetails", "getIPAddress", "netapp_timeout_values")

\* echoSetup: netapp_timeout_values(..., &aucInactivity) with aucInactivity = 0
SetTimeouts ==
  /\ pc = "netapp_timeout_values"
  /\ \E ret \in {-1, 0} :
       /\ Called("netapp_timeout_values", ret)
       /\ IF ret /= 0 THEN Halt /\ UNCHANGED timeoutSet
          ELSE pc' = "socket" /\ timeoutSet' = (aucInactivity = 0)
  /\ UNCHANGED <<listenSocket, reg, i, next, uaf, lstate, hstate, inbuf, sent,
                 echoed, wfrom, wfail, pending, env, polls, sc, tick, last>>

\* echoSetup: listenSocket = socket(AF_INET, SOCK_STREAM, IPPROTO_TCP)
CreateSocket ==
  /\ pc = "socket"
  /\ \E ret \in {-1, 0} :
       /\ Called("socket", ret)
       /\ listenSocket' = ret
       /\ IF ret < 0 THEN Halt /\ UNCHANGED lstate
          ELSE pc' = "setsockopt" /\ lstate' = [lstate EXCEPT !.created = TRUE]
  /\ UNCHANGED <<reg, i, next, uaf, timeoutSet, hstate, inbuf, sent, echoed,
                 wfrom, wfail, pending, env, polls, sc, tick, last>>

\* A call on the listening socket that, unless it fails, leaves it as `to`.
ListenCall(at, fn, to, then) ==
  /\ pc = at
  /\ \E ret \in {-1, 0} :
       /\ Called(fn, ret)
       /\ IF ret < 0 THEN Halt /\ UNCHANGED lstate
          ELSE pc' = then /\ lstate' = to
  /\ UNCHANGED <<listenSocket, reg, i, next, uaf, timeoutSet, hstate, inbuf,
                 sent, echoed, wfrom, wfail, pending, env, polls, sc, tick, last>>

\* An echoSetup that goes from socket to bind without the setsockopt call.
SkipNonBlocking ==
  /\ pc = "setsockopt"
  /\ pc' = "bind"
  /\ UNCHANGED <<listenSocket, reg, i, next, uaf, net, env, boot, tick, last>>

\* echoSetup: setsockopt(listenSocket, SOL_SOCKET, SOCKOPT_ACCEPT_NONBLOCK, ...)
SetNonBlocking ==
  ListenCall("setsockopt", "setsockopt", [lstate EXCEPT !.nonblock = TRUE], "bind")
\* echoSetup: bind(listenSocket, ...) to LISTEN_PORT on any interface
Bind ==
  ListenCall("bind", "bind",
             [lstate EXCEPT !.bound = TRUE, !.port = LISTEN_PORT, !.addr = INADDR_ANY],
             "listen")
\* echoSetup: listen(listenSocket, 0)
Listen ==
  ListenCall("listen", "listen",
             [lstate EXCEPT !.listening = TRUE, !.backlog = Backlog], "initList")

\* echoSetup: clients = NULL; clientCount = 0;
InitList ==
  /\ pc = "initList"
  /\ clients' = NULL
  /\ clientCount' = 0
  /\ pc' = "loop"
  /\ UNCHANGED <<listenSocket, mem, allocd, order, i, next, uaf, net, env, boot,
                 tick, last>>

\* ------------------------------------------- the SmartConfig sketch
\* The sketch is built with or without CC3000_TINY_DRIVER.
SmartInit == \E tiny \in BOOLEAN : InitAt("sc_begin", tiny)

\* A step of the SmartConfig sketch's setup that calls the module: fn, whose
\* result is one of rets, with the sketch going to `then` or, on a result it
\* takes as fatal, into while(1).
SmartCall(at, fn, rets, fatal, then) ==
  /\ pc = at
  /\ \E ret \in rets :
       /\ Called(fn, ret)
       /\ IF ret \in fatal THEN Halt ELSE pc' = then
  /\ UNCHANGED <<listenSocket, reg, i, next, uaf, net, env, polls, sc, tick, last>>

\* if (!cc3000.begin()) ... while(1);
ScBegin == SmartCall("sc_begin", "begin", {0, 1}, {0}, "sc_checkFirmwareVersion")

\* version = major; version <<= 8; version |= minor;  (uint16_t)
VersionOf(major, minor) ==
  LET shifted == (major * 256) % 65536
  IN shifted + (minor % 256)

\* A version test that takes any version that could be read.
AnyVersionRead(version) == version /= 0

\* if (checkFirmwareVersion() != 0x113) ... while (1);
VersionOk(version) == version = FirmwareVersion

\* checkFirmwareVersion(): version is assigned under #ifndef CC3000_TINY_DRIVER
\* only; in a tiny build it is returned as it was left on the stack.
ScCheckFirmwareVersion ==
  /\ pc = "sc_checkFirmwareVersion"
  /\ \E version \in
         (IF sc.tiny THEN Garbage
          ELSE {0} \cup {VersionOf(major, minor) : major \in Majors, minor \in Minors}) :
       /\ sc' = [sc EXCEPT !.version = version]
       /\ IF sc.tiny THEN UNCHANGED calls
          ELSE Called("getFirmwareVersion", IF version = 0 THEN 0 ELSE 1)
       /\ IF VersionOk(version) THEN pc' = "sc_displayMACAddress" ELSE Halt
  /\ UNCHANGED <<listenSocket, reg, i, next, uaf, net, env, polls, tick, last>>

\* displayMACAddress(): the result of getMacAddress only changes what is printed.
ScDisplayMACAddress ==
  SmartCall("sc_displayMACAddress", "getMacAddress", {0, 1}, {}, "sc_deleteProfiles")

\* if (!cc3000.deleteProfiles()) ... while(1);
ScDeleteProfiles ==
  SmartCall("sc_deleteProfiles", "deleteProfiles", {0, 1}, {0}, "sc_startSmartConfig")

\* if (!cc3000.startSmartConfig(false)) ... while(1);
ScStartSmartConfig ==
  SmartCall("sc_startSmartConfig", "startSmartConfig", {0, 1}, {0}, "sc_checkDHCP")

\* while (!cc3000.checkDHCP()) delay(100);
ScCheckDHCP == Poll("sc_checkDHCP", "checkDHCP", "sc_displayConnectionDetails")

\* while (!displayConnectionDetails()) delay(1000);  then, unless the build is
\* tiny, the lookup and the ping
ScDisplayConnectionDetails ==
  Poll("sc_displayConnectionDetails", "getIPAddress",
       IF sc.tiny THEN "sc_disconnect" ELSE "sc_getHostByName")

\* A lookup whose failure stops the sketch.
AfterLookupFatal(ret) == IF ret = 0 THEN "halt" ELSE "sc_ping"

\* if (!cc3000.getHostByName(...)) only prints: the ping comes next either way.
AfterLookup(ret) == "sc_ping"

\* uint32_t ip; if (!cc3000.getHostByName("www.adafruit.com", &ip)) ...
\* ip is assigned by a lookup that succeeds and is left as it was by one that
\* fails.
ScGetHostByName ==
  /\ pc = "sc_getHostByName"
  /\ \E ret \in {0, 1} :
       /\ Called("getHostByName", ret)
       /\ \E ip \in (IF ret /= 0 THEN Resolved ELSE Garbage) :
            sc' = [sc EXCEPT !.ip = ip]
       /\ pc' = AfterLookup(ret)
  /\ UNCHANGED <<listenSocket, reg, i, next, uaf, net, env, polls, tick, last>>

\* uint8_t replies = cc3000.ping(ip, 5);
ScPing == SmartCall("sc_ping", "ping", 0..PingAttempts, {}, "sc_disconnect")

\* cc3000.disconnect(); setup returns.
ScDisconnect == SmartCall("sc_disconnect", "disconnect", {0, 1}, {}, "sc_loop")

\* loop(): delay(1000);
ScLoop ==
  /\ pc = "sc_loop"
  /\ pc' = "sc_loop"
  /\ UNCHANGED <<listenSocket, reg, i, next, uaf, net, env, boot, tick, last>>

SmartSetup ==
  \/ ScBegin
  \/ ScCheckFirmwareVersion
  \/ ScDisplayMACAddress
  \/ ScDeleteProfiles
  \/ ScStartSmartConfig
  \/ ScCheckDHCP
  \/ ScDisplayConnectionDetails
  \/ ScGetHostByName
  \/ ScPing
  \/ ScDisconnect

SmartNext == SmartSetup \/ ScLoop

SmartSpec == SmartInit /\ [][SmartNext]_vars

\* ------------------------------------------------------- echoLoop
\* A read that keeps seven bits of the byte.
ToUint7(v) == v % 128

\* uint8_t ch = i->client.read(): the value read, as a uint8_t.
ToUint8(v) == v % 256

\* The session i->client that echoLoop reads from: the one made from the
\* node's socket.
ReadSession(p) == mem[p].socket

\* A write that goes to the session of the list's first node.
WriteSessionOfHead(p) == mem[clients].socket

\* The session the byte read from node p is written to: i->client again.
WriteSession(p) == mem[p].socket

\* i->client.write(ch): 1, or 0 when nothing was written.
WriteResults == {0, 1}

\* i->client.connected(): a session whose client has not closed is live; one
\* whose client has closed is not, unless the transport still holds unread bytes
\* of it and reports it live until they are read.
ConnectedResults(h) ==
  IF hstate[h] = "open" THEN {TRUE}
  ELSE IF inbuf[h] /= <<>> THEN {TRUE, FALSE}
  ELSE {FALSE}

\* A limit test that lets one client too many in.
BelowOrAtLimit(c) == c <= MAX_CLIENTS

\* A limit test that keeps the last place free.
BelowLimitLessOne(c) == c < MAX_CLIENTS - 1

\* if (clientCount < MAX_CLIENTS)
BelowLimit(c) == c < MAX_CLIENTS

\* A test of connected() without its negation.
StillConnected(r) == r

\* if (!i->client.connected())
Disconnected(r) == ~r

\* if (newSocket > -1)
IsNewClient(newSocket) == newSocket > -1

\* The handle the transport gives the next accepted connection: its first free one.
FreeHandle ==
  {h \in Handles : hstate[h] = "free" /\ \A g \in Handles : hstate[g] = "free" => h <= g}

\* accept(listenSocket, NULL, NULL): a handle for a pending connection, or a
\* negative result when none is pending (or on an error). On a listening socket
\* that is not non-blocking, accept does not return until a connection is
\* pending.
AcceptResults ==
  (IF lstate.nonblock \/ ~lstate.listening THEN NoConn ELSE {})
    \cup (IF pending > 0 /\ lstate.listening THEN FreeHandle ELSE {})

\* ClientList* i = clients;
LoopStart ==
  /\ pc = "loop"
  /\ i' = clients
  /\ pc' = "while"
  /\ tick' = [nodes |-> ChainSet, dead |-> {}, live |-> {},
              count0 |-> clientCount, naccept |-> 0, res |-> 0, mark |-> 0]
  /\ last' = Did("none", 0, 0)
  /\ UNCHANGED <<listenSocket, reg, next, uaf, net, env, boot>>

\* while (i != NULL) { ClientList* next = i->next; ...
LoopHead ==
  /\ pc = "while"
  /\ IF i = NULL
     THEN pc' = "accept" /\ UNCHANGED <<next, uaf>>
     ELSE /\ pc' = "drain"
          /\ next' \in (IF i \in allocd THEN {mem[i].next} ELSE Ptr)
          /\ uaf' = (uaf \/ i \notin allocd)
  /\ UNCHANGED <<listenSocket, reg, i, net, env, boot, tick, last>>

\* A drain that gives the connection up for this tick when a write returns 0.
AfterWriteStop(w) == IF w = 0 THEN "connected" ELSE "drain"

\* Where the drain goes after a write: if (write(ch) == 0) only prints, and the
\* while loop tests available() again.
AfterWrite(w) == "drain"

\* An echo that writes every byte it has read twice.
EchoTwice(ch) == <<ch, ch>>

\* i->client.write(ch): the bytes echoLoop writes for a byte it has read, the
\* byte itself, once.
Echo(ch) == <<ch>>

\* A drain that leaves the last available byte unread.
MoreThanOneToRead(n) == n > 1

\* while (i->client.available() > 0)
MoreToRead(n) == n > 0

\* while (i->client.available() > 0) { ch = read(); if (write(ch) == 0) ... }
\* (tick.mark: how many bytes the client had sent when available() returned 0.)
Drain ==
  /\ pc = "drain"
  /\ LET h == ReadSession(i)
         t == WriteSession(i)
     IN IF MoreToRead(Len(inbuf[h]))
        THEN LET ch == ToUint8(Head(inbuf[h])) IN
             /\ inbuf' = [inbuf EXCEPT ![h] = Tail(@)]
             /\ \E w \in WriteResults :
                  /\ IF w = 0
                     THEN /\ wfail' = [wfail EXCEPT ![t] = TRUE]
                          /\ UNCHANGED <<echoed, wfrom>>
                     ELSE /\ echoed' = [echoed EXCEPT ![t] = @ \o Echo(ch)]
                          /\ wfrom' = [wfrom EXCEPT ![t] =
                                         @ \o [k \in 1..Len(Echo(ch)) |-> h]]
                          /\ UNCHANGED wfail
                  /\ pc' = AfterWrite(w)
             /\ UNCHANGED tick
        ELSE /\ pc' = "connected"
             /\ tick' = [tick EXCEPT !.mark = Len(sent[h])]
             /\ UNCHANGED <<inbuf, echoed, wfrom, wfail>>
  /\ UNCHANGED <<listenSocket, reg, i, next, uaf, lstate, timeoutSet, hstate,
                 sent, pending, env, boot, last>>

\* The transport gives up a session that reported itself not live.
Release(h) ==
  /\ hstate' = [hstate EXCEPT ![h] = "free"]
  /\ inbuf' = [inbuf EXCEPT ![h] = <<>>]
  /\ sent' = [sent EXCEPT ![h] = <<>>]
  /\ echoed' = [echoed EXCEPT ![h] = <<>>]
  /\ wfrom' = [wfrom EXCEPT ![h] = <<>>]
  /\ wfail' = [wfail EXCEPT ![h] = FALSE]

\* A step to the next node that reads it from the node just handled, which
\* removeClient may have freed.
AdvanceThroughNode ==
  /\ i' \in (IF i \in allocd' THEN {mem'[i].next} ELSE Ptr)
  /\ uaf' = (uaf \/ i \notin allocd')

\* i = next: the pointer saved before removeClient could free the node.
Advance == i' = next /\ UNCHANGED uaf

\* if (!i->client.connected()) { removeClient(i); }  i = next;
CheckConnected ==
  /\ pc = "connected"
  /\ \E r \in ConnectedResults(ReadSession(i)) :
       /\ tick' = [tick EXCEPT !.live = IF r THEN @ \cup {i} ELSE @,
                                !.dead = IF r THEN @ ELSE @ \cup {i},
                                !.mark = 0]
       /\ IF r THEN UNCHANGED <<hstate, inbuf, sent, echoed, wfrom, wfail>>
          ELSE Release(ReadSession(i))
       /\ IF Disconnected(r) THEN removeClient(i)
          ELSE UNCHANGED <<reg, last>>
  /\ Advance
  /\ pc' = "while"
  /\ UNCHANGED <<listenSocket, next, lstate, timeoutSet, pending, env, boot>>

\* An accept phase that goes on accepting while it gets connections.
AfterAcceptAgain(newSocket) == IF newSocket > -1 THEN "accept" ELSE "loop"

\* Where echoLoop goes after its accept phase: the accept is in an if, it is
\* not repeated, and echoLoop returns.
AfterAccept(newSocket) == "loop"

\* if (clientCount < MAX_CLIENTS) { newSocket = accept(...);
\*   if (newSocket > -1) addNewClient(newSocket); }
AcceptPhase ==
  /\ pc = "accept"
  /\ IF BelowLimit(clientCount)
     THEN \E newSocket \in AcceptResults :
            /\ tick' = [tick EXCEPT !.naccept = @ + 1, !.res = newSocket]
            /\ pc' = AfterAccept(newSocket)
            /\ IF IsNewClient(newSocket)
               THEN addNewClient(newSocket)
               ELSE last' = Did("noconn", newSocket, 0) /\ UNCHANGED reg
            /\ IF newSocket \in Handles
               THEN /\ pending' = pending - 1
                    /\ hstate' = [hstate EXCEPT ![newSocket] =
                                    IF last'.op = "added" THEN "open" ELSE "leaked"]
               ELSE UNCHANGED <<pending, hstate>>
     ELSE /\ last' = Did("skip", 0, 0)
          /\ pc' = "loop"
          /\ UNCHANGED <<reg, pending, hstate, tick>>
  /\ UNCHANGED <<listenSocket, i, next, uaf, lstate, timeoutSet, inbuf, sent,
                 echoed, wfrom, wfail, env, boot>>

\* ------------------------------------------------------- the clients
\* A client connects to the listening port.
ClientConnect(maxArrivals) ==
  /\ lstate.listening
  /\ arrivals < maxArrivals
  /\ arrivals' = arrivals + 1
  /\ pending' = pending + 1
  /\ UNCHANGED <<prog, boot, lstate, timeoutSet, hstate, inbuf, sent, echoed, wfrom,
                 wfail, nbytes, tick, last>>

\* The client of an accepted connection sends one byte. (A connection whose node
\* could not be allocated is never looked at again by the sketch: what its
\* client does is left out.)
ClientSend(maxBytes) ==
  \E h \in Handles, b \in ByteVals :
    /\ hstate[h] = "open"
    /\ nbytes < maxBytes
    /\ nbytes' = nbytes + 1
    /\ inbuf' = [inbuf EXCEPT ![h] = Append(@, b)]
    /\ sent' = [sent EXCEPT ![h] = Append(@, b)]
    /\ UNCHANGED <<prog, boot, lstate, timeoutSet, hstate, echoed, wfrom, wfail,
                   pending, arrivals, tick, last>>

\* The client of an accepted connection closes it.
ClientClose ==
  \E h \in Handles :
    /\ hstate[h] = "open"
    /\ hstate' = [hstate EXCEPT ![h] = "closed"]
    /\ UNCHANGED <<prog, boot, lstate, timeoutSet, inbuf, sent, echoed, wfrom, wfail,
                   pending, env, tick, last>>

\* The client of an accepted connection sends its next byte as soon as the
\* sketch has read the one before, without end. (What was sent and written
\* back is kept from the client's latest byte on.)
ClientStream ==
  \E h \in Handles, b \in ByteVals :
    /\ hstate[h] = "open"
    /\ inbuf[h] = <<>>
    /\ inbuf' = [inbuf EXCEPT ![h] = <<b>>]
    /\ sent' = [sent EXCEPT ![h] = <<b>>]
    /\ echoed' = [echoed EXCEPT ![h] = <<>>]
    /\ wfrom' = [wfrom EXCEPT ![h] = <<>>]
    /\ UNCHANGED <<prog, boot, lstate, timeoutSet, hstate, wfail, pending, env,
                   tick, last>>

\* ------------------------------------------------------- the sketch
Setup ==
  \/ Begin
  \/ ConnectToAP
  \/ CheckDHCP
  \/ DisplayConnectionDetails
  \/ SetTimeouts
  \/ CreateSocket
  \/ SetNonBlocking
  \/ Bind
  \/ Listen
  \/ InitList

EchoLoop ==
  \/ LoopStart
  \/ LoopHead
  \/ Drain
  \/ CheckConnected
  \/ AcceptPhase

Clients(maxArrivals, maxBytes) ==
  \/ ClientConnect(maxArrivals)
  \/ ClientSend(maxBytes)
  \/ ClientClose

Next == Setup \/ EchoLoop \/ Clients(MaxArrivals, MaxBytes)

Spec == Init /\ [][Next]_vars

EchoNext == Setup \/ EchoLoop \/ Clients(EchoArrivals, EchoBytes)

EchoSpec == Init /\ [][EchoNext]_vars

\* loop() calls echoLoop again and again: once setup is through, the sketch
\* always takes its next step.
LiveNext == Setup \/ EchoLoop \/ Clients(LiveArrivals, LiveBytes)

FairEchoSpec == Init /\ [][LiveNext]_vars /\ WF_vars(EchoLoop)

\* The sketch with clients that may send for as long as they are connected.
StreamNext == Setup \/ EchoLoop \/ ClientConnect(StreamArrivals) \/ ClientStream \/ ClientClose

StreamSpec == Init /\ [][StreamNext]_vars /\ WF_vars(EchoLoop)

\* Either sketch, through its setup and on.
BootInit == Init \/ SmartInit

BootNext == LiveNext \/ SmartNext

\* The sketch's setup always takes its next step; every wait loop's polls
\* report success after MaxPolls failures at most.
FairBootSpec == BootInit /\ [][BootNext]_vars /\ WF_vars(Setup \/ SmartSetup)

RecoverNext == Setup \/ EchoLoop \/ Clients(RecoverArrivals, RecoverBytes)

FairRecoverSpec == Init /\ [][RecoverNext]_vars /\ WF_vars(EchoLoop)

\* ------------------------------------------- the list operations alone
\* The list after echoSetup, with addNewClient and removeClient called with
\* any socket and any pointer.
RegInit == InitAt("call", FALSE)

CallAdd ==
  /\ \E socket \in {1, MaxHandles} : addNewClient(socket)
  /\ UNCHANGED <<pc, listenSocket, i, next, uaf, net, env, boot, tick>>

CallRemove ==
  /\ \E client \in Ptr : removeClient(client)
  /\ UNCHANGED <<pc, listenSocket, i, next, uaf, net, env, boot, tick>>

RegNext == CallAdd \/ CallRemove

RegSpec == RegInit /\ [][RegNext]_vars

\* ------------------------------------------------------------ claims

\* C1 (echo fidelity). On every connection no write of which has returned 0,
\* the bytes written back are a prefix of the bytes its client has sent, in
\* every reachable state.
C1_Prefix == \A h \in Handles : ~wfail[h] => IsPrefix(echoed[h], sent[h])

\* C1. A tracked connection whose client has sent everything it will send gets
\* all of it back while the ticks keep running: from every state with the
\* connection tracked and its client connected, a state follows in which the
\* bytes written back equal the bytes sent, unless a write on it returned 0 or
\* its client has gone.
C1_CaughtUp ==
  \A h \in Handles :
    (Tracked(h) /\ hstate[h] = "open")
      ~> ((Tracked(h) /\ echoed[h] = sent[h]) \/ wfail[h] \/ hstate[h] /= "open")

\* C1 (echo fidelity): on a connection no write of which has returned 0, the
\* bytes written back are always a prefix of the bytes sent and, the client
\* staying connected and the ticks running on, come to equal them.
C1_EchoFidelity == []C1_Prefix /\ C1_CaughtUp

\* C1's case: a tracked connection has got back, in order, the two different
\* bytes its client sent.
C1_Witness ==
  \E h \in Handles :
    /\ Tracked(h)
    /\ ~wfail[h]
    /\ sent[h] = <<65, 200>>
    /\ echoed[h] = sent[h]

\* C5 (no cross-talk). Every byte written to a connection was read from that
\* same connection, and is a byte its own client sent.
C5_NoCrossTalk ==
  \A h \in Handles :
    /\ \A k \in 1..Len(wfrom[h]) : wfrom[h][k] = h
    /\ Len(wfrom[h]) = Len(echoed[h])
    /\ \A k \in 1..Len(echoed[h]) : \E j \in 1..Len(sent[h]) : sent[h][j] = echoed[h][k]

\* C5's case: two tracked connections whose clients sent different bytes have
\* each got their own byte back, the second from the list's head included.
C5_Witness ==
  \E g, h \in Handles :
    /\ g /= h
    /\ Tracked(g) /\ Tracked(h)
    /\ sent[g] = <<65>> /\ echoed[g] = <<65>>
    /\ sent[h] = <<200>> /\ echoed[h] = <<200>>

\* The list operations of RegSpec's steps and of echoLoop's.
RmOps == {"rmNull", "rmHead", "rmInner", "rmAbsent"}
\* The step just taken was a call of removeClient (RegSpec: every step is a call).
RemoveCalled == last'.op \in RmOps /\ (pc = "call" \/ (pc = "connected" /\ pc' = "while"))
\* The step just taken was a call of addNewClient.
AddCalled == last'.op \in {"added", "addFail"} /\ (pc = "call" \/ pc = "accept")

\* C2 (count/chain agreement). clientCount is the number of nodes reachable from
\* clients, after any calls of addNewClient and removeClient, failed allocations
\* and removals of NULL or of absent nodes included.
C2_CountIsChainLength == clientCount = Len(Chain)

\* C2's case: a removal of an absent node, from a list of two, has just returned.
C2_Witness == last.op = "rmAbsent" /\ last.arg /= NULL /\ Len(Chain) = 2

\* C6 (removal preserves the rest). removeClient of a node of the list, be it the
\* head, a middle node, the tail or the only node, leaves the list with exactly
\* the other nodes, in their order and with their sockets, and takes exactly 1
\* from clientCount.
C6_RemovalKeepsTheRest ==
  [][(RemoveCalled /\ last'.arg \in ChainSet) =>
       /\ Chain' = DropAt(Chain, IndexOf(Chain, last'.arg))
       /\ \A a \in ChainSet \ {last'.arg} : mem'[a].socket = mem[a].socket
       /\ clientCount' = clientCount - 1]_vars

\* C6's case: the middle node of a list of three has just been removed.
C6_Witness == last.op = "rmInner" /\ last.pos = 2 /\ Len(Chain) = 2

\* C7 (removing an absent connection is a no-op). removeClient of NULL, or of a
\* node that is not in the list (the empty list included), changes neither
\* clientCount nor clients nor any node, and frees nothing.
C7_AbsentRemovalIsNoOp ==
  [][(RemoveCalled /\ last'.arg \notin ChainSet) =>
       UNCHANGED <<clients, clientCount, mem, allocd>>]_vars

\* C7's case: a node that is not in the list has just been passed to
\* removeClient, the list holding three others.
C7_Witness ==
  last.op \in RmOps /\ last.arg /= NULL /\ last.arg \notin ChainSet /\ Len(Chain) = 3

\* C8 (head insertion). A successful addNewClient(socket) makes a new node with
\* that socket the head, keeps the nodes there were behind it as they were and
\* in their order, and adds exactly 1 to clientCount: the list is always in
\* most-recently-inserted-first order.
C8_HeadInsertion ==
  [][(AddCalled /\ last'.op = "added") =>
       /\ clients' \notin ChainSet
       /\ Chain' = <<clients'>> \o Chain
       /\ mem'[clients'].socket = last'.arg
       /\ \A a \in ChainSet : mem'[a] = mem[a]
       /\ clientCount' = clientCount + 1]_vars

\* C8: the nodes of the list are the nodes in use, the most recently inserted
\* first.
C8_NewestFirst == Chain = order

\* C8 (head insertion and traversal order): a successful addNewClient puts the
\* new node in front of the unchanged others and adds 1 to clientCount, and the
\* list, hence every traversal of it, is in most-recently-inserted-first order.
C8_InsertAtHead == C8_HeadInsertion /\ []C8_NewestFirst

\* C8's case: a third node has just been put in front of two.
C8_Witness ==
  /\ last.op = "added" /\ mem[clients].socket = last.arg
  /\ Len(Chain) = 3 /\ Chain[2] < Chain[3] /\ Chain[3] < Chain[1]

\* The step just taken was echoLoop's accept phase.
AcceptStep == pc = "accept" /\ pc' = "loop"
\* The nodes of the running tick whose connected() has been called.
Checked == tick.live \cup tick.dead

\* C3 (capacity bound). clientCount stays within 0..MAX_CLIENTS through setup
\* and any ticks, whatever the clients do.
C3_WithinLimit == 0 <= clientCount /\ clientCount <= MAX_CLIENTS

\* C3. An accept phase that finds clientCount = MAX_CLIENTS calls neither accept
\* nor addNewClient.
C3_NoAcceptAtLimit ==
  [][(AcceptStep /\ clientCount = MAX_CLIENTS) =>
       /\ tick'.naccept = tick.naccept
       /\ ~AddCalled
       /\ UNCHANGED <<clients, clientCount, mem, allocd, pending, hstate>>]_vars

\* C3 (capacity bound): 0 <= clientCount <= MAX_CLIENTS in every reachable
\* state, and an accept phase that finds clientCount = MAX_CLIENTS calls neither
\* accept nor addNewClient.
C3_CapacityBound == []C3_WithinLimit /\ C3_NoAcceptAtLimit

\* C3's case: a tick has ended on a full list without calling accept, a
\* connection attempt pending.
C3_Witness ==
  /\ pc = "loop" /\ last.op = "skip" /\ tick.naccept = 0
  /\ clientCount = MAX_CLIENTS /\ pending > 0

\* C4 (eviction exactly on disconnect). Within a tick the list holds exactly the
\* nodes it started with less those whose connected() has returned false in this
\* tick, which are freed; a node is visited only while it is in the list and
\* before its check; when the pass is over every node has been checked, so the
\* list holds exactly the nodes whose check reported live.
C4_EvictedIffDead ==
  /\ pc \in {"while", "drain", "connected", "accept"} =>
       /\ ChainSet = tick.nodes \ tick.dead
       /\ tick.dead \cap allocd = {}
       /\ tick.live \cap tick.dead = {}
       /\ Checked \subseteq tick.nodes
  /\ pc \in {"drain", "connected"} => i \in ChainSet \ Checked
  /\ pc = "accept" => Checked = tick.nodes /\ ChainSet = tick.live

\* C4. The accept phase removes no connection: the list it leaves ends with the
\* list it found.
C4_AcceptEvictsNone == [][AcceptStep => IsSuffix(Chain, Chain')]_vars

\* C4 (eviction exactly on disconnect): in each tick a connection is removed if
\* and only if its connected() reports false in that tick; it is gone before the
\* tick ends and is not visited again; a connection reported live is still in
\* the list when the tick ends, the accept phase evicting none.
C4_EvictionOnDisconnect == []C4_EvictedIffDead /\ C4_AcceptEvictsNone

\* C4's case: a pass over three connections is over, one was reported
\* disconnected and is gone, two were reported live and are kept.
C4_Witness ==
  /\ pc = "accept"
  /\ Cardinality(tick.dead) = 1 /\ Cardinality(tick.live) = 2
  /\ clientCount = 2

\* C9 (pending connections wait for a slot). A pending connection is taken only
\* by an accept phase that finds clientCount < MAX_CLIENTS; an accept phase that
\* finds clientCount = MAX_CLIENTS leaves the pending connections and the list
\* alone; one that finds clientCount < MAX_CLIENTS calls accept, and when accept
\* hands over a connection and the allocation succeeds, that connection is the
\* new head of the list.
C9_PendingWaitsForSlot ==
  [][/\ pending' < pending => (AcceptStep /\ clientCount < MAX_CLIENTS)
     /\ (AcceptStep /\ clientCount = MAX_CLIENTS) =>
          (pending' = pending /\ Chain' = Chain /\ clientCount' = MAX_CLIENTS)
     /\ (AcceptStep /\ clientCount < MAX_CLIENTS) => tick'.naccept = tick.naccept + 1
     /\ (AcceptStep /\ pending' < pending /\ allocd' /= allocd) =>
          /\ pending' = pending - 1
          /\ Chain' = <<clients'>> \o Chain
          /\ hstate[mem'[clients'].socket] = "free"
          /\ hstate'[mem'[clients'].socket] = "open"]_vars

\* C9's case: a tick that began with MAX_CLIENTS connections removed one and, in
\* its accept phase, took in the connection that had been pending.
C9_Witness ==
  /\ pc = "loop" /\ tick.count0 = MAX_CLIENTS /\ tick.dead /= {}
  /\ last.op = "added" /\ clientCount = MAX_CLIENTS
  /\ hstate[mem[clients].socket] = "open"

\* C10 (at most one accept per tick). A tick calls accept at most once, and only
\* when its pass over the list is over and every node has been checked, so that
\* clientCount is never more than 1 above its value at the start of the tick.
C10_OneAccept ==
  /\ tick.naccept <= 1
  /\ tick.naccept > 0 => pc = "loop"
  /\ pc = "accept" => Checked = tick.nodes
  /\ clientCount <= tick.count0 + 1

\* C10. An accept phase whose accept returns a result below 0 leaves the list as
\* it is.
C10_NothingPending ==
  [][(AcceptStep /\ tick'.naccept > tick.naccept /\ tick'.res < 0) =>
       /\ ~AddCalled
       /\ UNCHANGED <<clients, clientCount, mem, allocd, pending>>]_vars

\* C10 (at most one accept per tick): each tick calls accept at most once, after
\* its pass over the list, so clientCount grows by at most 1 per tick however
\* many connections are pending, and an accept result below 0 leaves the list
\* unchanged.
C10_OneAcceptPerTick == []C10_OneAccept /\ C10_NothingPending

\* C10's case: a tick has accepted one connection and left two pending.
C10_Witness ==
  /\ pc = "loop" /\ tick.naccept = 1 /\ tick.res > -1 /\ last.op = "added"
  /\ pending = 2 /\ clientCount = tick.count0 + 1

\* An accepted connection has been lost to a failed allocation.
Failed == \E h \in Handles : hstate[h] = "leaked"

\* C11 (allocation failure on insert is recoverable). A call of addNewClient
\* whose malloc returns NULL changes neither clients nor any node, next links
\* included, nor clientCount, allocates nothing, and the tick it is made in
\* returns.
C11_FailureLeavesList ==
  [][(AddCalled /\ last'.pos = NULL) =>
       /\ UNCHANGED <<clients, clientCount, mem, allocd>>
       /\ pc = "accept" => pc' = "loop"]_vars

\* C11. Once an allocation has failed, every accept phase that finds
\* clientCount < MAX_CLIENTS still calls accept.
C11_StillAccepting ==
  [][(Failed /\ AcceptStep /\ clientCount < MAX_CLIENTS) =>
       tick'.naccept = tick.naccept + 1]_vars

\* C11. Once an allocation has failed, the ticks go on: every tick reaches its
\* accept phase and returns, and a tracked connection still gets back what its
\* client sent, unless a write on it returns 0 or its client goes.
C11_StillServing ==
  /\ (Failed /\ pc = "loop") ~> (Failed /\ pc = "accept")
  /\ (Failed /\ pc = "accept") ~> (Failed /\ pc = "loop")
  /\ \A h \in Handles :
       (Failed /\ Tracked(h) /\ hstate[h] = "open")
         ~> ((Tracked(h) /\ echoed[h] = sent[h]) \/ wfail[h] \/ hstate[h] /= "open")

\* C11 (allocation failure on insert is recoverable): a failed allocation in
\* addNewClient leaves clients, every node and clientCount as they were, the
\* tick returns, and later ticks keep draining the tracked connections and keep
\* calling accept.
C11_Recoverable == C11_FailureLeavesList /\ C11_StillAccepting /\ C11_StillServing

\* C11's case: the first connection was lost to a failed allocation, and the
\* connection accepted after it has got back the byte its client sent.
C11_Witness ==
  /\ hstate[1] = "leaked"
  /\ Tracked(2) /\ sent[2] /= <<>> /\ echoed[2] = sent[2]

\* The step just taken read a byte whose write returned 0: the byte is gone
\* from the connection's buffer and nothing was written back.
FailedWrite ==
  /\ pc = "drain"
  /\ Len(inbuf'[ReadSession(i)]) < Len(inbuf[ReadSession(i)])
  /\ echoed' = echoed

\* C12 (write failure does not change connection state). A write that returns 0
\* leaves the list, its order, every node and clientCount as they were, and the
\* drain of the same connection goes on.
C12_FailedWriteKeeps ==
  [][FailedWrite =>
       /\ UNCHANGED <<clients, clientCount, mem, allocd, hstate, i>>
       /\ pc' = "drain"]_vars

\* C12. The drain of a connection a write on which has returned 0 ends only
\* when none of its bytes is available, and is followed by its liveness check.
C12_DrainGoesOn ==
  [][(pc = "drain" /\ pc' /= "drain" /\ wfail[ReadSession(i)]) =>
       /\ inbuf[ReadSession(i)] = <<>>
       /\ pc' = "connected"]_vars

\* C12. A connection a write on which has returned 0 leaves the list only in
\* its liveness check, when connected() reports false.
C12_RemovedOnlyWhenDead ==
  [][\A a \in ChainSet :
       (wfail[mem[a].socket] /\ a \notin ChainSet') =>
         (pc = "connected" /\ a = i /\ a \in tick'.dead)]_vars

\* C12 (write failure does not change connection state): a write returning 0
\* leaves the connection in the list at its place and clientCount unchanged,
\* the drain of its remaining bytes goes on, and the connection is removed only
\* when its liveness check reports it disconnected.
C12_WriteFailureKeepsState ==
  C12_FailedWriteKeeps /\ C12_DrainGoesOn /\ C12_RemovedOnlyWhenDead

\* C12's case: the write of a connection's first byte returned 0, its second
\* byte was echoed in the same drain, and the connection was found live.
C12_Witness ==
  \E h \in Handles :
    /\ pc = "accept" /\ Tracked(h) /\ wfail[h]
    /\ sent[h] = <<65, 200>> /\ echoed[h] = <<200>> /\ inbuf[h] = <<>>
    /\ \E a \in tick.live : mem[a].socket = h

\* A call of the echo sketch's setup whose result the sketch takes as fatal.
FatalFailure(c) ==
  \/ c.fn \in {"begin", "connectToAP"} /\ c.ret = 0
  \/ c.fn = "netapp_timeout_values" /\ c.ret /= 0
  \/ c.fn \in {"socket", "setsockopt", "bind", "listen"} /\ c.ret < 0

\* C13 (fatal initialization failure halts for good). When begin, connectToAP,
\* netapp_timeout_values, socket, setsockopt, bind or listen has reported
\* failure, the sketch is in its idle loop and that call is the last one setup
\* has made; no call is made twice; the list is still empty and nothing has
\* been accepted.
C13_FailureHalts ==
  /\ \A k \in 1..Len(calls) :
       FatalFailure(calls[k]) => (pc = "halt" /\ k = Len(calls))
  /\ \A j, k \in 1..Len(calls) : j < k => calls[j].fn /= calls[k].fn
  /\ pc = "halt" =>
       /\ FatalFailure(calls[Len(calls)])
       /\ clients = NULL /\ clientCount = 0 /\ allocd = {}
       /\ tick = NoTick /\ arrivals = 0
       /\ \A h \in Handles : hstate[h] = "free"

\* C13. The idle loop is never left: from it no step of setup or of echoLoop is
\* taken and nothing the sketch owns changes.
C13_HaltIsFinal ==
  [][pc = "halt" => (pc' = "halt" /\ UNCHANGED <<prog, calls, tick, last>>)]_vars

\* C13 (fatal initialization failure halts for good): a failure of begin,
\* connectToAP, netapp_timeout_values, socket, setsockopt, bind or listen puts
\* the sketch in an idle loop it never leaves; no later setup step runs, none
\* is retried, and echoLoop, hence accept and any change of the list, never
\* runs.
C13_FatalInitHalts == []C13_FailureHalts /\ C13_HaltIsFinal

\* C13's case: bind has failed on the listening socket that socket and
\* setsockopt had set up, and the sketch is in its idle loop.
C13_Witness ==
  /\ pc = "halt" /\ Len(calls) = 8
  /\ calls[8] = Call("bind", -1)
  /\ lstate.created /\ lstate.nonblock /\ ~lstate.bound

\* C14 (every tick terminates). Whatever the clients do, a tick that has begun
\* its pass over the list reaches its accept phase, and a tick in its accept
\* phase returns.
C14_EveryTickTerminates ==
  /\ (pc \in {"while", "drain", "connected"}) ~> (pc = "accept")
  /\ (pc = "accept") ~> (pc = "loop")

\* The step just taken was the liveness check of node i: connected() was
\* evaluated.
CheckStep == pc = "connected" /\ pc' = "while"

\* C15 (liveness check ordering). In a tick connected() is evaluated on nodes
\* the tick started with, on each once: a node is checked only if it has not
\* been checked in this tick, and when the pass is over every node the tick
\* started with has been checked.
C15_CheckedOnce ==
  /\ [][CheckStep =>
          /\ i \in tick.nodes /\ i \notin Checked
          /\ Checked' = Checked \cup {i}]_vars
  /\ [][Checked' /= Checked => (CheckStep \/ (pc = "loop" /\ Checked' = {}))]_vars
  /\ [](pc = "accept" => Checked = tick.nodes)

\* C15. The liveness check of a connection is reached only from its drain
\* loop, when available() has returned 0: none of its bytes is unread.
C15_CheckAfterDrain ==
  [][(pc /= "connected" /\ pc' = "connected") =>
       /\ pc = "drain" /\ i' = i
       /\ inbuf[ReadSession(i)] = <<>>
       /\ inbuf' = inbuf]_vars

\* C15. A node leaves the list only in its own liveness check, never in a
\* drain; and when it does, every byte its client had sent when its drain
\* loop ended has been read.
C15_RemovedAfterDrain ==
  [][\A a \in ChainSet :
       a \notin ChainSet' =>
         /\ CheckStep /\ a = i
         /\ Len(sent[mem[a].socket]) - Len(inbuf[mem[a].socket]) >= tick.mark]_vars

C16_NoUseAfterFree ==
  /\ ~uaf
  /\ pc \in {"drain", "connected"} => i \in allocd
  /\ (pc = "while" /\ i /= NULL) => i \in allocd
  /\ ChainSet = allocd

\* C16. A node is freed only by the liveness check of that node, it is
\* allocated when it is freed, and it has not been freed before in this tick.
C16_FreedOnce ==
  [][\A a \in Addr :
       (a \in allocd /\ a \notin allocd') =>
         /\ CheckStep /\ a = i
         /\ a \notin tick.dead /\ a \in tick'.dead
         /\ allocd' = allocd \ {a}]_vars

\* C16. The pass enters the loop body only for a node the tick started with
\* that is still in the list and has not been handled in this tick, and when
\* the pass is over it has handled every node the tick started with.
C16_VisitedOnce ==
  /\ [][(pc = "while" /\ pc' = "drain") =>
          (i \in tick.nodes /\ i \in ChainSet /\ i \notin Checked)]_vars
  /\ [](pc = "accept" => (Checked = tick.nodes /\ i = NULL))

\* C16 (traversal with removal is memory-safe): whichever connections
\* disconnect, echoLoop never reads a field of a freed node, every node is
\* freed at most once, and every node tracked at the start of a tick is
\* visited exactly once in that tick.
C16_SafeTraversal == []C16_NoUseAfterFree /\ C16_FreedOnce /\ C16_VisitedOnce

\* C16's case: a pass over three connections has removed all three, the head,
\* the middle one and the tail, and is over.
C16_Witness ==
  /\ pc = "accept" /\ tick.count0 = 3
  /\ Cardinality(tick.dead) = 3 /\ allocd = {} /\ clients = NULL

\* loop() has been reached: setup is over.
InLoop == pc \in {"loop", "while", "drain", "connected", "accept"}
\* The names of the calls setup has made, in their order.
CallNames == [k \in 1..Len(calls) |-> calls[k].fn]

\* C17 (setup establishes the loop's preconditions). Once loop() is reached,
\* setup has made its calls in the order begin, connectToAP, checkDHCP,
\* getIPAddress, netapp_timeout_values, socket, setsockopt, bind, listen, none
\* of them failing; the inactivity timeout is 0; the listening socket is the
\* one socket() returned, accept-non-blocking, bound to LISTEN_PORT on any
\* interface, and listening with backlog 0; for as long as no connection has
\* been accepted, the first tick's pass included, the list is empty and
\* clientCount is 0; before loop() no tick has run and nothing has been accepted.
C17_LoopPreconditions ==
  /\ InLoop =>
       /\ CallNames = <<"begin", "connectToAP", "checkDHCP", "getIPAddress",
                        "netapp_timeout_values", "socket", "setsockopt", "bind",
                        "listen">>
       /\ \A k \in 1..Len(calls) : ~FatalFailure(calls[k])
       /\ timeoutSet
       /\ listenSocket >= 0
       /\ lstate = [created |-> TRUE, nonblock |-> TRUE, bound |-> TRUE,
                    port |-> LISTEN_PORT, addr |-> INADDR_ANY,
                    listening |-> TRUE, backlog |-> 0]
  /\ (InLoop /\ pending = arrivals) =>
       (clients = NULL /\ clientCount = 0 /\ allocd = {})
  /\ ~InLoop =>
       (tick = NoTick /\ last.op = "none" /\ \A h \in Handles : hstate[h] = "free")

\* C17. The socket calls of echoSetup are made on the socket as the calls
\* before them left it: setsockopt on the created socket, bind on the
\* non-blocking one, listen on the bound one.
C17_InOrder ==
  [][/\ (lstate'.nonblock /\ ~lstate.nonblock) => (lstate.created /\ ~lstate.bound)
     /\ (lstate'.bound /\ ~lstate.bound) => (lstate.nonblock /\ ~lstate.listening)
     /\ (lstate'.listening /\ ~lstate.listening) => (lstate.bound /\ timeoutSet)]_vars

\* C17. accept is called only on a socket that is non-blocking and listening.
C17_AcceptOnListening ==
  [][(pc = "accept" /\ tick'.naccept > tick.naccept) =>
       (lstate.nonblock /\ lstate.listening /\ listenSocket >= 0)]_vars

\* C17 (setup establishes the loop's preconditions): when the first tick runs
\* the inactivity timeout is 0 and the listening socket has been created, made
\* accept-non-blocking, bound to LISTEN_PORT on any interface and put to
\* listening with backlog 0, in that order, the list is empty and clientCount
\* is 0; accept is never called on a socket that is not non-blocking and
\* listening.
C17_SetupBeforeLoop == []C17_LoopPreconditions /\ C17_InOrder /\ C17_AcceptOnListening

\* C17's case: the first tick is running, on an empty list, a client already
\* waiting at the listening socket.
C17_Witness ==
  /\ pc = "accept" /\ tick.naccept = 0 /\ pending = 1 /\ arrivals = 1
  /\ Len(calls) = 9 /\ lstate.listening /\ clients = NULL

\* The module calls of the SmartConfig sketch's setup, in the order of the
\* source; a tiny build leaves out the version read, the lookup and the ping.
ScOrder ==
  IF sc.tiny
  THEN <<"begin", "getMacAddress", "deleteProfiles", "startSmartConfig",
         "checkDHCP", "getIPAddress", "disconnect">>
  ELSE <<"begin", "getFirmwareVersion", "getMacAddress", "deleteProfiles",
         "startSmartConfig", "checkDHCP", "getIPAddress", "getHostByName",
         "ping", "disconnect">>

\* A call of the SmartConfig sketch's setup whose result the sketch takes as
\* fatal.
ScFatal(c) ==
  \/ c.fn \in {"begin", "deleteProfiles", "startSmartConfig"} /\ c.ret = 0
  \/ c.fn = "getFirmwareVersion" /\ c.ret = 0

\* The calls of disconnect setup has made.
Disconnects == {k \in 1..Len(calls) : calls[k].fn = "disconnect"}

\* C19 (SmartConfig flow ordering). The calls setup has made are the first
\* calls of the fixed order begin, version read, (MAC address,) deleteProfiles,
\* startSmartConfig, checkDHCP, connection details, lookup, ping, disconnect;
\* past the version check the version is 0x113.
C19_FixedOrder ==
  /\ Len(calls) <= Len(ScOrder)
  /\ \A k \in 1..Len(calls) : calls[k].fn = ScOrder[k]
  /\ pc \notin {"sc_begin", "sc_checkFirmwareVersion", "halt"} =>
       sc.version = FirmwareVersion

\* C19. A failure of begin, of the version check, of deleteProfiles or of
\* startSmartConfig leaves the sketch in its idle loop with that step the last
\* one made, so that disconnect has not been called; the sketch is in the idle
\* loop for no other reason.
C19_FailureHalts ==
  /\ \A k \in 1..Len(calls) : ScFatal(calls[k]) => (pc = "halt" /\ k = Len(calls))
  /\ pc = "halt" =>
       /\ Disconnects = {}
       /\ \/ ScFatal(calls[Len(calls)])
          \/ /\ sc.version /= FirmwareVersion
             /\ calls[Len(calls)].fn \in {"begin", "getFirmwareVersion"}

\* C19. The idle loop is never left and no call is made from it.
C19_HaltIsFinal == [][pc = "halt" => (pc' = "halt" /\ UNCHANGED calls)]_vars

\* C19. A lookup that fails is followed by the ping like one that succeeds.
C19_LookupNotFatal ==
  [][(pc = "sc_getHostByName" /\ calls' /= calls) =>
       (pc' = "sc_ping" /\ calls'[Len(calls')].fn = "getHostByName")]_vars

\* C19. disconnect is called at most once, and exactly once, as the last call,
\* when setup has returned; loop() then calls nothing.
C19_DisconnectOnce ==
  /\ [](Cardinality(Disconnects) <= 1)
  /\ [](pc = "sc_loop" <=> Disconnects = {Len(calls)})
  /\ [][pc = "sc_loop" => (pc' = "sc_loop" /\ UNCHANGED calls)]_vars

\* C19 (SmartConfig flow ordering): the steps run in the order begin, firmware
\* version check (0x113), deleteProfiles, startSmartConfig, DHCP wait,
\* connection details, (lookup and ping), disconnect; a failure of any of the
\* first four halts for good, before any later step and before disconnect; a
\* failed lookup is not fatal; on the successful path disconnect is called
\* exactly once, after which loop() makes no call of the module.
C19_SmartConfigFlow ==
  /\ []C19_FixedOrder
  /\ []C19_FailureHalts
  /\ C19_HaltIsFinal
  /\ C19_LookupNotFatal
  /\ C19_DisconnectOnce

\* C19's case: the lookup failed, the ping and the disconnect followed, and
\* setup has returned to loop().
C19_Witness ==
  /\ pc = "sc_loop" /\ ~sc.tiny /\ Len(calls) = 10
  /\ calls[8] = Call("getHostByName", 0)
  /\ calls[10].fn = "disconnect"

\* The wait loops of the two sketches' setups and, for each, the step that
\* follows it.
Waits ==
  {"checkDHCP", "displayConnectionDetails", "sc_checkDHCP",
   "sc_displayConnectionDetails"}
PastWait(at) ==
  IF at = "checkDHCP" THEN {"displayConnectionDetails"}
  ELSE IF at = "displayConnectionDetails" THEN {"netapp_timeout_values"}
  ELSE IF at = "sc_checkDHCP" THEN {"sc_displayConnectionDetails"}
  ELSE {IF sc.tiny THEN "sc_disconnect" ELSE "sc_getHostByName"}

\* C18 (unbounded DHCP / connection-detail wait). A poll that reports failure,
\* however many have failed before it, leaves setup in the same wait loop: it
\* neither goes on to the next step nor halts, and setup makes no other call.
C18_FailedPollWaits ==
  [][(pc \in Waits /\ polls' /= polls /\ polls' /= 0) =>
       (pc' = pc /\ polls' = polls + 1 /\ UNCHANGED calls)]_vars

\* C18. Setup leaves a wait loop only by a poll that reports success, and then
\* for the step that follows the loop: the next wait, echoSetup, or the lookup
\* (in a tiny build, the disconnect).
C18_SuccessProceeds ==
  [][(pc \in Waits /\ pc' /= pc) =>
       /\ pc' \in PastWait(pc)
       /\ Len(calls') = Len(calls) + 1
       /\ calls'[Len(calls')].ret /= 0
       /\ calls'[Len(calls')].fn \in {"checkDHCP", "getIPAddress"}]_vars

\* C18. With polls that come to report success, setup gets past both waits:
\* the echo sketch to echoSetup, the SmartConfig sketch to the lookup (in a
\* tiny build, to the disconnect).
C18_GetsPast ==
  /\ (pc = "checkDHCP") ~> (pc = "netapp_timeout_values")
  /\ (pc = "sc_checkDHCP") ~> (pc \in {"sc_getHostByName", "sc_disconnect"})

\* C18 (unbounded DHCP / connection-detail wait): in both sketches setup polls
\* checkDHCP and then displayConnectionDetails without a retry limit; while a
\* poll reports failure setup stays in the wait, neither proceeding nor
\* halting, and when each comes to report success setup proceeds past the
\* wait.
C18_UnboundedWait == C18_FailedPollWaits /\ C18_SuccessProceeds /\ C18_GetsPast

\* C18's case: the SmartConfig sketch is past its DHCP wait and in its
\* connection-detail wait, every poll of which has failed so far.
C18_Witness ==
  /\ pc = "sc_displayConnectionDetails" /\ polls = MaxPolls
  /\ calls[Len(calls)] = Call("checkDHCP", 1)

\* a is b with some of its elements left out.
RECURSIVE IsSubsequence(_, _)
IsSubsequence(a, b) ==
  IF a = <<>> THEN TRUE
  ELSE IF b = <<>> THEN FALSE
  ELSE IF Head(a) = Head(b) THEN IsSubsequence(Tail(a), Tail(b))
  ELSE IsSubsequence(a, Tail(b))

\* The bytes of a connection that echoLoop has read.
Consumed(h) == SubSeq(sent[h], 1, Len(sent[h]) - Len(inbuf[h]))

\* C20 (echo under write failures). On every connection, a write having
\* returned 0 or not, the bytes written back are a subsequence of the bytes
\* read from it, which are the first of the bytes its client sent, the unread
\* ones being the rest: no byte is written twice, out of order or changed.
C20_Subsequence ==
  \A h \in Handles :
    /\ IsSubsequence(echoed[h], Consumed(h))
    /\ sent[h] = Consumed(h) \o inbuf[h]
    /\ ~wfail[h] => echoed[h] = Consumed(h)

\* C20. A step of the drain loop (a step in the drain that is not a client's)
\* reads one byte, the first unread one, which is then gone from the buffer
\* whether its write returns 0 or not, and writes back that byte or nothing.
C20_ConsumedOnce ==
  [][(pc = "drain" /\ pc' = "drain" /\ UNCHANGED <<arrivals, nbytes, hstate>>) =>
       LET h == ReadSession(i) IN
       /\ inbuf[h] /= <<>> /\ inbuf'[h] = Tail(inbuf[h])
       /\ \/ echoed'[h] = echoed[h] /\ wfail'[h]
          \/ echoed'[h] = Append(echoed[h], Head(inbuf[h])) /\ wfail' = wfail
       /\ \A g \in Handles \ {h} : echoed'[g] = echoed[g] /\ inbuf'[g] = inbuf[g]]_vars

\* C20 (echo under write failures): when writes on a connection return 0, each
\* byte read from it is consumed exactly once and never retried, so the bytes
\* written back are a subsequence of the bytes its client sent: bytes may be
\* missing, none is duplicated, reordered or altered.
C20_EchoIsSubsequence == []C20_Subsequence /\ C20_ConsumedOnce

\* C20's case: of the two bytes a client sent, the first was written back and
\* the write of the second returned 0; both have been read.
C20_Witness ==
  \E h \in Handles :
    /\ Tracked(h) /\ wfail[h]
    /\ sent[h] = <<65, 200>> /\ echoed[h] = <<65>> /\ inbuf[h] = <<>>

====
